---- MODULE Spec2Model ----
\* Model of the Domain-Offensive dns-01 authenticator (certbot_dns_do.dns_do):
\* Authenticator._setup_credentials / _perform / _cleanup and the
\* _DomainOffensiveClient add_txt_record / del_txt_record request/response
\* handling, with the provider's record store and concurrent invocations.
EXTENDS Integers, Sequences, FiniteSets, TLC

\* ---------------------------------------------------------------- bounds
MaxChals == 2

\* Two concurrent invocations of the plugin against the same account.
Procs == {"A", "B"}

\* Domains a challenge is issued for; a wildcard and its base domain share
\* the validation record name.
Domains == {"example.com", "*.example.com"}
ValidationName(d) ==
  IF d = "*.example.com" THEN "_acme-challenge.example.com" ELSE "_acme-challenge." \o d
Names == {ValidationName(d) : d \in Domains}

API_TOKEN == "secret-token"
MISSING == "<missing>"
NoRecord == <<>>

\* A challenge handled by invocation p at position i: its validation value is
\* unique to the challenge, written <<p, i>>.
Chal == {[domain |-> d, name |-> ValidationName(d)] : d \in Domains}
ChalSeqs == UNION {[1..n -> Chal] : n \in 1..MaxChals}
ValueOf(p, i) == <<p, i>>

\* ------------------------------------------------- HTTP response outcomes
\* The decoded JSON body: kind is the Python type of r.json(); for a dict,
\* has tells whether the "success" key is present and val its value; for a
\* list or str, has tells whether 'success' in body holds.
\* kind "invalid" is a body r.json() cannot decode.
DictVals == {"true", "false", "int1", "float1", "strtrue", "null"}
Bodies ==
  {[kind |-> "dict", has |-> TRUE, val |-> v] : v \in DictVals}
  \cup {[kind |-> "dict", has |-> FALSE, val |-> "null"]}
  \cup {[kind |-> k, has |-> h, val |-> "null"] : k \in {"list", "str"}, h \in BOOLEAN}
  \cup {[kind |-> k, has |-> FALSE, val |-> "null"] : k \in {"null", "num", "bool", "invalid"}}
Statuses == {200, 304, 500}
NetErr == [net |-> TRUE, status |-> 0, body |-> [kind |-> "invalid", has |-> FALSE, val |-> "null"]]
Outcomes == {NetErr} \cup {[net |-> FALSE, status |-> s, body |-> b] : s \in Statuses, b \in Bodies}

\* Response.raise_for_status: raises HTTPError for 4xx and 5xx.
RaisesForStatus(s) == 400 <= s /\ s < 600

\* Python: 'success' in result
InSuccess(b) ==
  IF b.kind \in {"dict", "list", "str"} THEN (IF b.has THEN "in" ELSE "notin")
  ELSE "TypeError"

\* Python: result['success'] != True (only reached when 'success' in result);
\* 1 and 1.0 compare equal to True.
GetSuccessNeTrue(b) ==
  IF b.kind = "dict" THEN (IF b.val \in {"true", "int1", "float1"} THEN "eq" ELSE "ne")
  ELSE "TypeError"

\* Python: 'success' not in result or result['success'] != True
\* evaluates to "fail", "pass" or the exception it raises.
SuccessCheck(b) ==
  LET isIn == InSuccess(b) IN
  IF isIn = "TypeError" THEN "TypeError"
  ELSE IF isIn = "notin" THEN "fail"
  ELSE LET ne == GetSuccessNeTrue(b) IN
       IF ne = "TypeError" THEN "TypeError"
       ELSE IF ne = "ne" THEN "fail" ELSE "pass"

\* The try-block of add_txt_record / del_txt_record up to the success check:
\* "reqexc" when requests raises a RequestException (connection error,
\* HTTPError, and from requests 2.27 on a JSONDecodeError), "ValueError" when
\* r.json() raises a bare ValueError (older requests), else SuccessCheck.
\* jsonIsReqExc tells which requests release the program runs with.
Exchange(o, jsonIsReqExc) ==
  IF o.net THEN "reqexc"
  ELSE IF RaisesForStatus(o.status) THEN "reqexc"
  ELSE IF o.body.kind = "invalid" THEN (IF jsonIsReqExc THEN "reqexc" ELSE "ValueError")
  ELSE SuccessCheck(o.body)

\* _DomainOffensiveClient.add_txt_record: result (returns normally, or the
\* exception that leaves it) and the number of logger.error entries written.
AddResult(o, j) ==
  LET x == Exchange(o, j) IN
  CASE x = "pass" -> [res |-> "ok", logs |-> 0]
    [] x = "fail" -> [res |-> "PluginError", logs |-> 1]
    [] x = "reqexc" -> [res |-> "PluginError", logs |-> 1]
    [] OTHER -> [res |-> x, logs |-> 0]

\* _DomainOffensiveClient.del_txt_record: failures are logged, not raised,
\* except what the except clause does not catch.
DelResult(o, j) ==
  LET x == Exchange(o, j) IN
  CASE x = "pass" -> [res |-> "ok", logs |-> 0]
    [] x = "fail" -> [res |-> "logged", logs |-> 1]
    [] x = "reqexc" -> [res |-> "logged", logs |-> 1]
    [] OTHER -> [res |-> x, logs |-> 0]

\* Query parameters of the two requests.
AddParamsExtraDomain(token, domain, record_name, record_content) ==
  [token |-> token, domain |-> record_name, value |-> record_content, zone |-> domain]
AddParamsDomainArg(token, domain, record_name, record_content) ==
  [token |-> token, domain |-> domain, value |-> record_content]
AddParams(token, domain, record_name, record_content) ==
  [token |-> token, domain |-> record_name, value |-> record_content]
DelParamsWithValue(token, domain, record_name, record_content) ==
  [token |-> token, domain |-> record_name, action |-> "delete", value |-> record_content]
DelParamsDomainArg(token, domain, record_name, record_content) ==
  [token |-> token, domain |-> domain, action |-> "delete"]
DelParams(token, domain, record_name, record_content) ==
  [token |-> token, domain |-> record_name, action |-> "delete"]

\* The provider's side effect of a successful request: add creates or
\* overwrites the TXT record at the 'domain' parameter, delete removes the
\* record(s) at that name.
ProviderAdd(z, prm) == [z EXCEPT ![prm.domain] = prm.value]
ProviderDelete(z, prm) == [z EXCEPT ![prm.domain] = NoRecord]

\* ------------------------------------------------------------- state
VARIABLES
  creds,        \* creds[p]: the credentials file of invocation p has api-token
  chals,        \* chals[p]: the challenges invocation p performs, in order
  jsonIsReqExc, \* requests release: JSONDecodeError is a RequestException
  setup,        \* setup[p]: "pending", "ok" or "error" (_setup_credentials)
  pc,           \* pc[p]: "perform", "cleanup", "done", "configerror", "cleanupfailed"
  idx,          \* idx[p]: position of the next challenge to perform/clean up
  err,          \* err[p]: the error that left perform or cleanup, or "none"
  nadd,         \* nadd[p]: add (value) requests sent by invocation p
  ndel,         \* ndel[p]: delete (action=delete) requests sent by invocation p
  last,         \* last[p]: the most recent client call of invocation p
  zone,         \* the provider's TXT records: name -> value or NoRecord
  probeOut,     \* response handed to a single add_txt_record call (SpecResp)
  probeRes      \* what that call did with it

vars == <<creds, chals, jsonIsReqExc, setup, pc, idx, err, nadd, ndel, last, zone, probeOut, probeRes>>

ZoneKeys == Names \cup Domains
NoCall == [op |-> "none", i |-> 0, params |-> [token |-> MISSING], res |-> "none",
           logs |-> 0]

Init ==
  /\ creds \in [Procs -> BOOLEAN]
  /\ chals \in [Procs -> ChalSeqs]
  /\ jsonIsReqExc \in BOOLEAN
  /\ setup = [p \in Procs |-> "pending"]
  /\ pc = [p \in Procs |-> "perform"]
  /\ idx = [p \in Procs |-> 1]
  /\ err = [p \in Procs |-> "none"]
  /\ nadd = [p \in Procs |-> 0]
  /\ ndel = [p \in Procs |-> 0]
  /\ last = [p \in Procs |-> NoCall]
  /\ zone = [k \in ZoneKeys |-> NoRecord]
  /\ probeOut = NetErr
  /\ probeRes = "none"

\* credentials.conf('api-token')
Token(p) == IF creds[p] THEN API_TOKEN ELSE MISSING

\* Authenticator._setup_credentials: _configure_credentials with the required
\* key 'api-token' fails before any request when the key is missing.
SetupCredentials(p) ==
  /\ setup[p] = "pending"
  /\ IF creds[p]
       THEN /\ setup' = [setup EXCEPT ![p] = "ok"]
            /\ UNCHANGED <<pc, err>>
       ELSE /\ setup' = [setup EXCEPT ![p] = "error"]
            /\ pc' = [pc EXCEPT ![p] = "configerror"]
            /\ err' = [err EXCEPT ![p] = "ConfigurationError"]
  /\ UNCHANGED <<creds, chals, jsonIsReqExc, idx, nadd, ndel, last, zone, probeOut, probeRes>>

CanPerformBeforeSetup(p) == setup[p] # "error"
CanPerform(p) == setup[p] = "ok"

\* Authenticator._perform -> add_txt_record for the next challenge. An
\* exception leaves perform; the host then still runs cleanup (which only
\* requires credentials to be set up) for every challenge of the invocation.
Perform(p) ==
  /\ pc[p] = "perform"
  /\ CanPerform(p)
  /\ \E x \in {[r |-> AddResult(o, jsonIsReqExc)] : o \in Outcomes} :
       LET i == idx[p]
           ch == chals[p][i]
           prm == AddParams(Token(p), ch.domain, ch.name, ValueOf(p, i))
           r == x.r
       IN /\ nadd' = [nadd EXCEPT ![p] = @ + 1]
          /\ last' = [last EXCEPT ![p] = [op |-> "add", i |-> i, params |-> prm,
                                          res |-> r.res, logs |-> r.logs]]
          /\ zone' = IF r.res = "ok" THEN ProviderAdd(zone, prm) ELSE zone
          /\ IF r.res = "ok"
               THEN IF i = Len(chals[p])
                      THEN /\ pc' = [pc EXCEPT ![p] = "cleanup"]
                           /\ idx' = [idx EXCEPT ![p] = 1]
                      ELSE /\ idx' = [idx EXCEPT ![p] = i + 1]
                           /\ UNCHANGED pc
               ELSE /\ pc' = [pc EXCEPT ![p] = "cleanup"]
                    /\ idx' = [idx EXCEPT ![p] = 1]
          /\ err' = [err EXCEPT ![p] = IF r.res = "ok" THEN "none" ELSE r.res]
  /\ UNCHANGED <<creds, chals, jsonIsReqExc, setup, ndel, probeOut, probeRes>>

\* Authenticator._cleanup -> del_txt_record for the next challenge, run by the
\* host after perform returned or raised.
Cleanup(p) ==
  /\ pc[p] = "cleanup"
  /\ \E x \in {[r |-> DelResult(o, jsonIsReqExc)] : o \in Outcomes} :
       LET i == idx[p]
           ch == chals[p][i]
           prm == DelParams(Token(p), ch.domain, ch.name, ValueOf(p, i))
           r == x.r
       IN /\ ndel' = [ndel EXCEPT ![p] = @ + 1]
          /\ last' = [last EXCEPT ![p] = [op |-> "del", i |-> i, params |-> prm,
                                          res |-> r.res, logs |-> r.logs]]
          /\ zone' = IF r.res = "ok" THEN ProviderDelete(zone, prm) ELSE zone
          /\ IF r.res \in {"ok", "logged"}
               THEN IF i = Len(chals[p])
                      THEN /\ pc' = [pc EXCEPT ![p] = "done"]
                           /\ UNCHANGED idx
                      ELSE /\ idx' = [idx EXCEPT ![p] = i + 1]
                           /\ UNCHANGED pc
               ELSE /\ pc' = [pc EXCEPT ![p] = "cleanupfailed"]
                    /\ UNCHANGED idx
          /\ err' = IF r.res \in {"ok", "logged"} THEN err ELSE [err EXCEPT ![p] = r.res]
  /\ UNCHANGED <<creds, chals, jsonIsReqExc, setup, nadd, probeOut, probeRes>>

Next == \E p \in Procs : SetupCredentials(p) \/ Perform(p) \/ Cleanup(p)

Spec == Init /\ [][Next]_vars

\* A single add_txt_record call on every response the provider can return.
RespInit ==
  /\ creds = [p \in Procs |-> TRUE]
  /\ chals = [p \in Procs |-> <<[domain |-> "example.com", name |-> ValidationName("example.com")]>>]
  /\ jsonIsReqExc \in BOOLEAN
  /\ setup = [p \in Procs |-> "ok"]
  /\ pc = [p \in Procs |-> "perform"]
  /\ idx = [p \in Procs |-> 1]
  /\ err = [p \in Procs |-> "none"]
  /\ nadd = [p \in Procs |-> 0]
  /\ ndel = [p \in Procs |-> 0]
  /\ last = [p \in Procs |-> NoCall]
  /\ zone = [k \in ZoneKeys |-> NoRecord]
  /\ probeOut \in Outcomes
  /\ probeRes = "none"

\* add_txt_record for invocation A's challenge, answered with probeOut: one
\* request, and the record published when the call succeeds.
RespondAdd ==
  LET ch == chals["A"][1]
      prm == AddParams(Token("A"), ch.domain, ch.name, ValueOf("A", 1))
      r == AddResult(probeOut, jsonIsReqExc)
  IN /\ probeRes = "none"
     /\ probeRes' = r.res
     /\ nadd' = [nadd EXCEPT !["A"] = @ + 1]
     /\ last' = [last EXCEPT !["A"] = [op |-> "add", i |-> 1, params |-> prm,
                                        res |-> r.res, logs |-> r.logs]]
     /\ zone' = IF r.res = "ok" THEN ProviderAdd(zone, prm) ELSE zone
     /\ UNCHANGED <<creds, chals, jsonIsReqExc, setup, pc, idx, err, ndel, probeOut>>

SpecResp == RespInit /\ [][RespondAdd]_vars

\* ================================================================ properties

\* C1: every failed add_txt_record fails with a PluginError that leaves
\* _perform unchanged and aborts the invocation's perform, and no further
\* request of that invocation follows the failure.
C1_AddFailureIsProviderError ==
  \A p \in Procs :
    /\ (last[p].op = "add" /\ last[p].res # "ok") =>
          /\ last[p].res = "PluginError"
          /\ err[p] = "PluginError"
    /\ err[p] = "PluginError" => last[p].op = "add"

\* C2: add_txt_record returns normally iff the status is 2xx and
\* the body is an object whose 'success' is exactly the boolean true.
C2_SuccessIffExactTrue ==
  probeRes # "none" =>
    (probeRes = "ok" <=>
       /\ ~probeOut.net
       /\ 200 <= probeOut.status /\ probeOut.status < 300
       /\ probeOut.body = [kind |-> "dict", has |-> TRUE, val |-> "true"])

\* C3: del_txt_record never raises; every failure is only logged.
C3_DeleteNeverRaises ==
  \A p \in Procs : last[p].op = "del" => last[p].res \in {"ok", "logged"}

\* C4: each add_txt_record sends exactly one GET, with parameters exactly
\* token, domain = record name and value = record content; the domain argument
\* is not sent.
C4_AddRequestShape ==
  \A p \in Procs :
    last[p].op = "add" =>
      /\ last[p].params = [token |-> API_TOKEN,
                           domain |-> chals[p][last[p].i].name,
                           value |-> ValueOf(p, last[p].i)]
      /\ nadd[p] = last[p].i
      /\ ndel[p] = 0

C4_Witness ==
  \E p \in Procs : last[p].op = "add" /\ last[p].i = 2

\* C5: each del_txt_record sends exactly one GET with parameters token,
\* domain = record name and action = delete, never a value.
C5_DeleteRequestShape ==
  \A p \in Procs :
    last[p].op = "del" =>
      /\ last[p].params = [token |-> API_TOKEN,
                           domain |-> chals[p][last[p].i].name,
                           action |-> "delete"]
      /\ "value" \notin DOMAIN last[p].params
      /\ ndel[p] = last[p].i

C5_Witness ==
  \E p \in Procs : last[p].op = "del" /\ last[p].i = 2

\* C6: when the credentials lack api-token the ConfigurationError is raised
\* before any HTTP request of that invocation.
C6_ConfigErrorBeforeRequests ==
  \A p \in Procs : err[p] = "ConfigurationError" => nadd[p] + ndel[p] = 0

C6_Witness ==
  \E p \in Procs : err[p] = "ConfigurationError" /\ nadd[(CHOOSE q \in Procs : q # p)] > 0

\* C7: with successful provider responses, perform publishes (name, value) without
\* error, and cleanup sends action=delete for name without error, after which
\* no record remains at name.
C7_PerformCleanupRoundTrip ==
  [][\A p \in Procs :
       (<<last'[p].op, last'[p].i>> # <<last[p].op, last[p].i>> /\ last'[p].res = "ok") =>
         LET name == chals[p][last'[p].i].name IN
         IF last'[p].op = "add"
           THEN /\ err'[p] = "none"
                /\ zone'[name] = ValueOf(p, last'[p].i)
           ELSE /\ err'[p] = err[p]
                /\ last'[p].params.action = "delete"
                /\ last'[p].params.domain = name
                /\ zone'[name] = NoRecord]_vars

C7_Witness ==
  \E p \in Procs : pc[p] = "done" /\ err[p] = "none" /\ last[p].res = "ok"

\* C8: one invocation's cleanup never removes a record published by the
\* other invocation.
C8_DeleteKeepsOthersRecords ==
  [][\A p \in Procs :
       (<<last'[p].op, last'[p].i>> # <<last[p].op, last[p].i>> /\ last'[p].op = "del") =>
         \A k \in ZoneKeys :
           (zone[k] # NoRecord /\ zone[k][1] # p) => zone'[k] = zone[k]]_vars

\* C9: once an invocation has performed all its challenges successfully, the value of an
\* earlier challenge whose record name a later one reuses is no longer
\* published anywhere.
C9_LastValueWins ==
  \A p \in Procs :
    (/\ pc[p] = "cleanup" /\ last[p].op = "add"
     /\ last[p].res = "ok" /\ last[p].i = Len(chals[p])) =>
      \A i, j \in 1..Len(chals[p]) :
        (i < j /\ chals[p][i].name = chals[p][j].name) =>
          \A k \in ZoneKeys : zone[k] # ValueOf(p, i)

C9_Witness ==
  \E p \in Procs :
    /\ pc[p] = "cleanup" /\ last[p].op = "add"
    /\ Len(chals[p]) >= 2
    /\ chals[p][1].name = chals[p][2].name
    /\ chals[p][1].domain # chals[p][2].domain
    /\ zone[chals[p][2].name] = ValueOf(p, Len(chals[p]))

\* C10: every failed add_txt_record or del_txt_record writes exactly one error
\* log entry, a successful one none.
C10_OneLogPerFailure ==
  \A p \in Procs :
    last[p].op # "none" => last[p].logs = (IF last[p].res = "ok" THEN 0 ELSE 1)

====
